---- MODULE Spec2Model ----
(***************************************************************************)
(* Model of data/generate_data.py: the synthetic supply-chain data         *)
(* generator.  main() parses the command line, computes the start date,    *)
(* calls seven generators in sequence on one shared random generator       *)
(* (seeded with 42) and writes eight files.                                *)
(*                                                                         *)
(* Time is counted in minutes; a date is a day ordinal (the number of the  *)
(* day), so the datetime of day D at hh:mm is D*1440 + hh*60 + mm.         *)
(* A generator's random draws are the parameters of its actions.  The      *)
(* specifications that quantify over every outcome of the draws pick them  *)
(* with \E from the range the library call returns, narrowed to a few      *)
(* values of that range; the specification of whole runs (Spec) takes them *)
(* from a seeded, deterministic stream, as random.Random(42) does.         *)
(***************************************************************************)
EXTENDS Integers, Sequences, FiniteSets, TLC

VARIABLES
    pc,         \* position in main(): the statement about to run
    exc,        \* the exception that ended the run ("" while none)
    argv,       \* the command line: [days, plants, start], as text was parsed
    today,      \* the clock: the UTC date datetime.utcnow() would return
    fs,         \* the file system's answer to this run's calls
    start,      \* main's local start (minutes); 0 while unbound
    rng,        \* the state of the shared generator RNG
    plants, inventory, prod, cpo, shipments, events, iot,   \* main's locals
    d,          \* the running generator's day index (for d in range(days))
    p,          \* the running generator's index into plants / shipments
    k,          \* the running generator's innermost index
    n,          \* the innermost loop's drawn length <<cnt>>, <<>> before the draw
    current,    \* gen_shipment_events' local current (minutes)
    files,      \* the files written by this run: path -> rows
    earlier     \* the files of the runs that ended before this one

vars == <<pc, exc, argv, today, fs, start, rng, plants, inventory, prod, cpo,
          shipments, events, iot, d, p, k, n, current, files, earlier>>

(***************************************************************************)
(* Bounds of the model.                                                    *)
(***************************************************************************)
MaxDays == 2          \* --days ranges over -1..MaxDays (0..MaxDays in the parts)
MaxPlants == 2        \* --plants ranges over -1..MaxPlants
MaxDate == 1          \* dates given or read from the clock: 0..MaxDate
DrawWidth == 1        \* a narrowed draw takes this many values from each end
MaxRuns == 2          \* runs of the same command line
MaxRunDays == 1       \* --days of whole runs: -1..MaxRunDays
MaxRunPlants == 1     \* --plants of whole runs: -1..MaxRunPlants

(***************************************************************************)
(* Program constants.                                                      *)
(***************************************************************************)
Seed == 42
MinutesPerDay == 1440
MinutesPerHour == 60
LastMinute == 1439
MaxEvents == 8
LastEventIndex == 7
MinEvents == 3
MinStepHours == 1
MaxStepHours == 10
MinSnapHours == -2
MaxSnapHours == 18
MinEtaHours == 6
MaxEtaHours == 72
MinShipmentsPerDay == 6
MaxShipmentsPerDay == 18
MinOrdersPerDay == 5
MaxOrdersPerDay == 15
MinPOsPerDay == 10
MaxPOsPerDay == 25
Presses == 5
ReadingsPerDay == 24

PRODUCTS == <<
    [sku |-> "TIR-001", product_name |-> "All-Season 205/55R16", category |-> "Passenger"],
    [sku |-> "TIR-002", product_name |-> "Winter 195/65R15", category |-> "Passenger"],
    [sku |-> "TIR-003", product_name |-> "Performance 225/40R18", category |-> "Passenger"],
    [sku |-> "TIR-101", product_name |-> "Truck A/T 265/70R17", category |-> "LightTruck"],
    [sku |-> "TIR-201", product_name |-> "OTR 14.00R25", category |-> "Industrial"] >>

SUPPLIERS == <<
    [supplier_id |-> "SUP-001", supplier_name |-> "RubberCo", supplier_country |-> "US"],
    [supplier_id |-> "SUP-002", supplier_name |-> "ChemMix Ltd", supplier_country |-> "CA"],
    [supplier_id |-> "SUP-003", supplier_name |-> "SteelCord Inc", supplier_country |-> "MX"],
    [supplier_id |-> "SUP-004", supplier_name |-> "CarbonBlack AG", supplier_country |-> "DE"],
    [supplier_id |-> "SUP-005", supplier_name |-> "SyntheticPolymers", supplier_country |-> "JP"] >>

CARRIERS == <<"DHL", "FedEx", "XPO", "UPS", "Maersk">>

REGIONS == <<"NE", "SE", "MW", "SW", "W">>

EVENT_STATUSES == <<"IN_TRANSIT", "IN_TRANSIT", "AT_HUB", "DELAYED", "OUT_FOR_DELIVERY">>

SHIPMENT_STATUSES == <<"CREATED", "IN_TRANSIT", "IN_TRANSIT", "DELIVERED", "DELAYED">>

PO_STATUSES == <<"OPEN", "OPEN", "OPEN", "CLOSED", "CANCELLED">>

(***************************************************************************)
(* Helpers.                                                                *)
(***************************************************************************)
Max(a, b) == IF a >= b THEN a ELSE b

\* Python's int(a / b) for b > 0: truncation toward zero.
Trunc(a, b) == IF a >= 0 THEN a \div b ELSE -((-a) \div b)

\* math.ceil(a / b) for a >= 0, b > 0.
Ceil(a, b) == (a + b - 1) \div b

\* sku.startswith("TIR-0"): the three passenger SKUs of the catalog.
StartsWithTIR0(sku) == sku \in {"TIR-001", "TIR-002", "TIR-003"}

\* f"{i:03d}": at least three digits, zero padded.
Fmt03d(i) ==
    IF i < 10 THEN "00" \o ToString(i)
    ELSE IF i < 100 THEN "0" \o ToString(i) ELSE ToString(i)

\* f"{i:02d}"
Fmt02d(i) == IF i < 10 THEN "0" \o ToString(i) ELSE ToString(i)

\* iso(dt): the text of a datetime, "<date>T<hh>:<mm>:00Z", as its fields.
iso(t) == <<t \div MinutesPerDay, (t % MinutesPerDay) \div MinutesPerHour, t % MinutesPerHour>>

\* datetime.fromisoformat(s.replace("Z", "+00:00")): the datetime of a text.
fromisoformat(s) == s[1] * MinutesPerDay + s[2] * MinutesPerHour + s[3]

\* dt.date().isoformat() and f"{dt:%Y%m%d}": the date of a datetime.
DateOf(t) == t \div MinutesPerDay

\* The order of two timestamp texts (fixed-width fields: the order of the texts).
IsoLess(a, b) ==
    \/ a[1] < b[1]
    \/ a[1] = b[1] /\ a[2] < b[2]
    \/ a[1] = b[1] /\ a[2] = b[2] /\ a[3] < b[3]

\* range(m) as the set of its values.
Range(m) == 0..(m - 1)

\* A draw from lo..hi narrowed to w values from each end of the range.
Ends(lo, hi, w) == {x \in lo..hi : x < lo + w \/ x > hi - w}

\* The seeded generator: its next state, and the value a state yields.
Advance(x) == (x * 75 + 74) % 65537

\* The state after j draws.
RECURSIVE AdvanceBy(_, _)
AdvanceBy(x, j) == IF j = 0 THEN x ELSE AdvanceBy(Advance(x), j - 1)

\* RNG.randint(lo, hi) as the j-th draw from state x (j >= 1).
randint(x, j, lo, hi) == lo + (AdvanceBy(x, j) % (hi - lo + 1))

(***************************************************************************)
(* gen_plants(n)                                                           *)
(***************************************************************************)
\* The i-th plant's row.
PlantRow(i, region) ==
    [plant_id |-> "PLT-" \o Fmt03d(i), plant_name |-> "Plant " \o ToString(i),
     region |-> region, timezone |-> "America/New_York"]

\* One pass of `for i in range(1, n + 1)`; ri is RNG.choice's index.
PlantsRow(ri) ==
    /\ pc = "gen_plants"
    /\ Len(plants) < argv.plants
    /\ plants' = Append(plants, PlantRow(Len(plants) + 1, REGIONS[ri]))
    /\ UNCHANGED <<pc, exc, argv, today, fs, start, inventory, prod, cpo, shipments,
                   events, iot, d, p, k, n, current, files, earlier>>

\* The loop is over: return plants; main calls gen_inventory.
PlantsReturn ==
    /\ pc = "gen_plants"
    /\ Len(plants) >= argv.plants
    /\ pc' = "gen_inventory"
    /\ d' = 0 /\ p' = 1 /\ k' = 1
    /\ UNCHANGED <<exc, argv, today, fs, start, rng, plants, inventory, prod, cpo,
                   shipments, events, iot, n, current, files, earlier>>

(***************************************************************************)
(* gen_inventory(plants, start, days)                                      *)
(***************************************************************************)
\* InventoryAfter with the plant loop left after its first plant.
InventoryAfterFirstPlantOnly(dd, pp, kk) ==
    IF kk < Len(PRODUCTS) THEN <<dd, pp, kk + 1>> ELSE <<dd + 1, 1, 1>>

\* The loop's next (d, p, k) after (d, p, k), k running over PRODUCTS.
InventoryAfter(dd, pp, kk) ==
    IF kk < Len(PRODUCTS) THEN <<dd, pp, kk + 1>>
    ELSE IF pp < Len(plants) THEN <<dd, pp + 1, 1>>
    ELSE <<dd + 1, 1, 1>>

\* The row of day index dd, plant pp, product kk; z10 is the gauss draw in
\* tenths of a standard deviation, u the random() draw in thousandths.
InventoryRow(dd, pp, kk, z10, u) ==
    LET sku == PRODUCTS[kk].sku
        base == IF StartsWithTIR0(sku) THEN 800 ELSE 200
        noise == Trunc(z10 * base * 8, 1000)
        qty == Max(0, base + noise - Trunc(dd * u * 5, 1000))
    IN [snapshot_date |-> DateOf(start + dd * MinutesPerDay),
        plant_id |-> plants[pp].plant_id,
        sku |-> sku,
        on_hand_qty |-> qty,
        safety_stock_qty |-> Trunc(base * 35, 100)]

\* One pass of the innermost loop.
InventoryStep(z10, u) ==
    /\ pc = "gen_inventory"
    /\ d < argv.days /\ p <= Len(plants)
    /\ inventory' = Append(inventory, InventoryRow(d, p, k, z10, u))
    /\ d' = InventoryAfter(d, p, k)[1]
    /\ p' = InventoryAfter(d, p, k)[2]
    /\ k' = InventoryAfter(d, p, k)[3]
    /\ UNCHANGED <<pc, exc, argv, today, fs, start, plants, prod, cpo, shipments,
                   events, iot, n, current, files, earlier>>

\* The loops are over (or there is no plant): return rows.
InventoryReturn ==
    /\ pc = "gen_inventory"
    /\ (d >= argv.days \/ Len(plants) = 0)
    /\ pc' = "gen_production_orders"
    /\ d' = 0 /\ p' = 1 /\ k' = 0 /\ n' = <<>>
    /\ UNCHANGED <<exc, argv, today, fs, start, rng, plants, inventory, prod, cpo,
                   shipments, events, iot, current, files, earlier>>

(***************************************************************************)
(* gen_production_orders(plants, start, days)                              *)
(***************************************************************************)
\* randint's range for qty, by SKU family.
ProdQtyRange(sku) == IF StartsWithTIR0(sku) THEN <<200, 1200>> ELSE <<20, 150>>

\* uniform's range for cycle_min, in hundredths of a minute.
ProdCycleRange(sku) == IF StartsWithTIR0(sku) THEN <<80, 220>> ELSE <<500, 1200>>

\* f"PO-{p['plant_id']}-{day:%Y%m%d}-{RNG.randint(1000,9999)}"
ProdOrderId(plant_id, day, suffix) ==
    "PO-" \o plant_id \o "-" \o ToString(DateOf(day)) \o "-" \o ToString(suffix)

\* The row appended by one pass of the innermost loop.  r holds the draws in
\* the order the code makes them: si (choice of PRODUCTS), qty, cyc
\* (hundredths), minute, suffix, act (thousandths), scrap (thousandths).
ProdRow(dd, pp, r) ==
    LET day == start + dd * MinutesPerDay
        sku == PRODUCTS[r.si].sku
        start_ts == day + r.minute
        end_ts == start_ts + Ceil(r.qty * r.cyc, 100)
    IN [prod_order_id |-> ProdOrderId(plants[pp].plant_id, day, r.suffix),
        plant_id |-> plants[pp].plant_id,
        sku |-> sku,
        planned_qty |-> r.qty,
        actual_qty |-> Max(0, Trunc(r.qty * r.act, 1000)),
        start_ts |-> iso(start_ts),
        end_ts |-> iso(end_ts),
        scrap_qty |-> Max(0, Trunc(r.qty * r.scrap, 1000))]

\* `for _ in range(RNG.randint(5, 15))` is entered for (d, p): cnt is the draw.
ProdLoop(cnt) ==
    /\ pc = "gen_production_orders"
    /\ d < argv.days /\ p <= Len(plants) /\ n = <<>>
    /\ n' = <<cnt>> /\ k' = 0
    /\ UNCHANGED <<pc, exc, argv, today, fs, start, plants, inventory, prod, cpo,
                   shipments, events, iot, d, p, current, files, earlier>>

\* One pass of the innermost loop; after the last one the outer loops advance.
ProdStep(r) ==
    /\ pc = "gen_production_orders"
    /\ n # <<>> /\ k < n[1]
    /\ prod' = Append(prod, ProdRow(d, p, r))
    /\ IF k + 1 < n[1]
       THEN k' = k + 1 /\ UNCHANGED <<d, p, n>>
       ELSE /\ k' = 0 /\ n' = <<>>
            /\ IF p < Len(plants) THEN p' = p + 1 /\ d' = d
                                  ELSE p' = 1 /\ d' = d + 1
    /\ UNCHANGED <<pc, exc, argv, today, fs, start, plants, inventory, cpo,
                   shipments, events, iot, current, files, earlier>>

ProdReturn ==
    /\ pc = "gen_production_orders"
    /\ n = <<>> /\ (d >= argv.days \/ Len(plants) = 0)
    /\ pc' = "gen_purchase_orders"
    /\ d' = 0 /\ p' = 1 /\ k' = 0
    /\ UNCHANGED <<exc, argv, today, fs, start, rng, plants, inventory, prod, cpo,
                   shipments, events, iot, n, current, files, earlier>>

(***************************************************************************)
(* gen_purchase_orders(start, days)                                        *)
(***************************************************************************)
PurchaseQtyRange(sku) == IF StartsWithTIR0(sku) THEN <<500, 5000>> ELSE <<50, 400>>

\* r: sup (choice of SUPPLIERS), si (choice of PRODUCTS), qty, lead, suffix,
\* cost (cents), st (choice of the status list).
PurchaseRow(dd, r) ==
    LET day == start + dd * MinutesPerDay
    IN [cloud_po_id |-> "CPO-" \o ToString(DateOf(day)) \o "-" \o ToString(r.suffix),
        supplier_id |-> SUPPLIERS[r.sup].supplier_id,
        supplier_name |-> SUPPLIERS[r.sup].supplier_name,
        supplier_country |-> SUPPLIERS[r.sup].supplier_country,
        sku |-> PRODUCTS[r.si].sku,
        order_qty |-> r.qty,
        order_date |-> DateOf(day),
        expected_delivery_date |-> DateOf(day + r.lead * MinutesPerDay),
        unit_cost_usd |-> r.cost,
        status |-> PO_STATUSES[r.st]]

PurchaseLoop(cnt) ==
    /\ pc = "gen_purchase_orders"
    /\ d < argv.days /\ n = <<>>
    /\ n' = <<cnt>> /\ k' = 0
    /\ UNCHANGED <<pc, exc, argv, today, fs, start, plants, inventory, prod, cpo,
                   shipments, events, iot, d, p, current, files, earlier>>

PurchaseStep(r) ==
    /\ pc = "gen_purchase_orders"
    /\ n # <<>> /\ k < n[1]
    /\ cpo' = Append(cpo, PurchaseRow(d, r))
    /\ IF k + 1 < n[1]
       THEN k' = k + 1 /\ UNCHANGED <<d, n>>
       ELSE k' = 0 /\ n' = <<>> /\ d' = d + 1
    /\ UNCHANGED <<pc, exc, argv, today, fs, start, plants, inventory, prod,
                   shipments, events, iot, p, current, files, earlier>>

PurchaseReturn ==
    /\ pc = "gen_purchase_orders"
    /\ n = <<>> /\ d >= argv.days
    /\ pc' = "gen_shipments"
    /\ d' = 0 /\ p' = 1 /\ k' = 0
    /\ UNCHANGED <<exc, argv, today, fs, start, rng, plants, inventory, prod, cpo,
                   shipments, events, iot, n, current, files, earlier>>

(***************************************************************************)
(* gen_shipments(plants, start, days)                                      *)
(***************************************************************************)
ShipQtyRange(sku) == IF StartsWithTIR0(sku) THEN <<100, 2000>> ELSE <<10, 120>>

\* f"SHP-{day:%Y%m%d}-{RNG.randint(10000,99999)}"
ShipmentId(day, suffix) == "SHP-" \o ToString(DateOf(day)) \o "-" \o ToString(suffix)

\* r: pi (choice of plants), ca (choice of CARRIERS), si (choice of PRODUCTS),
\* qty, minute, hours (to the ETA), suffix, st (choice of the status list), dc.
ShipmentRow(dd, r) ==
    LET day == start + dd * MinutesPerDay
        ship_ts == day + r.minute
        eta == ship_ts + r.hours * MinutesPerHour
    IN [shipment_id |-> ShipmentId(day, r.suffix),
        plant_id |-> plants[r.pi].plant_id,
        carrier |-> CARRIERS[r.ca],
        sku |-> PRODUCTS[r.si].sku,
        shipped_qty |-> r.qty,
        ship_ts |-> iso(ship_ts),
        eta_ts |-> iso(eta),
        status |-> SHIPMENT_STATUSES[r.st],
        destination_dc |-> "DC-" \o Fmt03d(r.dc)]

ShipLoop(cnt) ==
    /\ pc = "gen_shipments"
    /\ d < argv.days /\ n = <<>>
    /\ n' = <<cnt>> /\ k' = 0
    /\ UNCHANGED <<pc, exc, argv, today, fs, start, plants, inventory, prod, cpo,
                   shipments, events, iot, d, p, current, files, earlier>>

\* One pass of the inner loop, with a plant to choose.
ShipStep(r) ==
    /\ pc = "gen_shipments"
    /\ n # <<>> /\ k < n[1]
    /\ Len(plants) > 0
    /\ shipments' = Append(shipments, ShipmentRow(d, r))
    /\ IF k + 1 < n[1]
       THEN k' = k + 1 /\ UNCHANGED <<d, n>>
       ELSE k' = 0 /\ n' = <<>> /\ d' = d + 1
    /\ UNCHANGED <<pc, exc, argv, today, fs, start, plants, inventory, prod, cpo,
                   events, iot, p, current, files, earlier>>

\* RNG.choice(plants) on an empty list: IndexError, which nothing catches.
ShipRaise ==
    /\ pc = "gen_shipments"
    /\ n # <<>> /\ k < n[1]
    /\ Len(plants) = 0
    /\ pc' = "raised" /\ exc' = "IndexError"
    /\ UNCHANGED <<argv, today, fs, start, rng, plants, inventory, prod, cpo,
                   shipments, events, iot, d, p, k, n, current, files, earlier>>

ShipReturn ==
    /\ pc = "gen_shipments"
    /\ n = <<>> /\ d >= argv.days
    /\ pc' = "gen_shipment_events"
    /\ d' = 0 /\ p' = 1 /\ k' = 0
    /\ UNCHANGED <<exc, argv, today, fs, start, rng, plants, inventory, prod, cpo,
                   shipments, events, iot, n, current, files, earlier>>

(***************************************************************************)
(* gen_shipment_events(shipments)                                          *)
(***************************************************************************)
\* `current > eta_ts and RNG.random() < 0.6`; late is the outcome of the draw.
Late(cur, eta_ts, late) == cur > eta_ts /\ late

\* `i == 7 or (eta_ts - current).total_seconds() < 3600 and RNG.random() < 0.7`;
\* deliver is the outcome of the draw.
Forced(i, cur, eta_ts, deliver) ==
    \/ i = LastEventIndex
    \/ (eta_ts - cur) * 60 < 3600 /\ deliver

\* Snap without max: the clock is set to the drawn hour around the ETA.
SnapToDraw(cur, eta_ts, h) == eta_ts + h * MinutesPerHour

\* Snap with min for max.
SnapEarlier(cur, eta_ts, h) ==
    IF cur <= eta_ts + h * MinutesPerHour THEN cur ELSE eta_ts + h * MinutesPerHour

\* `current = max(current, eta_ts + timedelta(hours=RNG.randint(-2, 18)))`
Snap(cur, eta_ts, h) == Max(cur, eta_ts + h * MinutesPerHour)

\* LoopEnds without the break.
LoopEndsByExhaustion(status, i, cnt) == i + 1 >= cnt

\* The inner loop is left after pass i of cnt: by `break`, or by exhaustion.
LoopEnds(status, i, cnt) == status = "DELIVERED" \/ i + 1 >= cnt

\* Pass i for shipment s from clock cur: the status and the clock it ends
\* with.  r: step (hours), si (choice of the status list), late, deliver, h,
\* lat, lon.
EventOutcome(s, i, cur, r) ==
    LET eta_ts == fromisoformat(s.eta_ts)
        stepped == cur + r.step * MinutesPerHour
        drawn == EVENT_STATUSES[r.si]
        status1 == IF Late(stepped, eta_ts, r.late) THEN "DELAYED" ELSE drawn
        forced == Forced(i, stepped, eta_ts, r.deliver)
    IN [status |-> IF forced THEN "DELIVERED" ELSE status1,
        current |-> IF forced THEN Snap(stepped, eta_ts, r.h) ELSE stepped]

\* The event pass i appends.
EventRow(s, i, o, r) ==
    [event_id |-> "EVT-" \o s.shipment_id \o "-" \o ToString(i),
     shipment_id |-> s.shipment_id,
     event_ts |-> iso(o.current),
     status |-> o.status,
     lat |-> r.lat,
     lon |-> r.lon]

\* `for s in shipments` reaches shipment p: its timestamps are parsed, current
\* is set to ship_ts and the inner loop's length cnt is drawn.
EventsLoop(cnt) ==
    /\ pc = "gen_shipment_events"
    /\ p <= Len(shipments) /\ n = <<>>
    /\ n' = <<cnt>> /\ k' = 0
    /\ current' = fromisoformat(shipments[p].ship_ts)
    /\ UNCHANGED <<pc, exc, argv, today, fs, start, plants, inventory, prod, cpo,
                   shipments, events, iot, d, p, files, earlier>>

\* One pass of the inner loop.
EventsStep(r) ==
    /\ pc = "gen_shipment_events"
    /\ n # <<>> /\ k < n[1]
    /\ LET o == EventOutcome(shipments[p], k, current, r)
       IN /\ events' = Append(events, EventRow(shipments[p], k, o, r))
          /\ current' = o.current
          /\ IF LoopEnds(o.status, k, n[1])
             THEN k' = 0 /\ n' = <<>> /\ p' = p + 1
             ELSE k' = k + 1 /\ UNCHANGED <<n, p>>
    /\ UNCHANGED <<pc, exc, argv, today, fs, start, plants, inventory, prod, cpo,
                   shipments, iot, d, files, earlier>>

EventsReturn ==
    /\ pc = "gen_shipment_events"
    /\ n = <<>> /\ p > Len(shipments)
    /\ pc' = "gen_iot"
    /\ d' = 0 /\ p' = 1 /\ k' = 0
    /\ UNCHANGED <<exc, argv, today, fs, start, rng, plants, inventory, prod, cpo,
                   shipments, events, iot, n, current, files, earlier>>

(***************************************************************************)
(* gen_iot(plants, start, days)                                            *)
(***************************************************************************)
\* The row of day index dd, plant pp and reading kk, kk counting the passes
\* of `for press in range(1, 6): for _ in range(24)`.  r: temp (hundredths
\* around 85), vib (thousandths), anomaly, tplus (hundredths), vplus
\* (thousandths).
IotRow(dd, pp, kk, r) ==
    LET press == (kk \div ReadingsPerDay) + 1
        hour == kk % ReadingsPerDay
        ts == start + dd * MinutesPerDay + hour * MinutesPerHour
    IN [ts |-> iso(ts),
        plant_id |-> plants[pp].plant_id,
        press_id |-> plants[pp].plant_id \o "-PRS-" \o Fmt02d(press),
        temperature_c |-> 8500 + r.temp + (IF r.anomaly THEN r.tplus ELSE 0),
        vibration_mm_s |-> r.vib + (IF r.anomaly THEN r.vplus ELSE 0)]

IotStep(r) ==
    /\ pc = "gen_iot"
    /\ d < argv.days /\ p <= Len(plants)
    /\ iot' = Append(iot, IotRow(d, p, k, r))
    /\ IF k + 1 < Presses * ReadingsPerDay
       THEN k' = k + 1 /\ UNCHANGED <<d, p>>
       ELSE /\ k' = 0
            /\ IF p < Len(plants) THEN p' = p + 1 /\ d' = d
                                  ELSE p' = 1 /\ d' = d + 1
    /\ UNCHANGED <<pc, exc, argv, today, fs, start, plants, inventory, prod, cpo,
                   shipments, events, n, current, files, earlier>>

IotReturn ==
    /\ pc = "gen_iot"
    /\ (d >= argv.days \/ Len(plants) = 0)
    /\ pc' = "write"
    /\ k' = 1
    /\ UNCHANGED <<exc, argv, today, fs, start, rng, plants, inventory, prod, cpo,
                   shipments, events, iot, d, p, n, current, files, earlier>>

(***************************************************************************)
(* main()                                                                  *)
(***************************************************************************)
\* The eight files main writes, in the order it writes them.
OutputFile(i) ==
    CASE i = 1 -> [path |-> "master/plants.csv",
                   fieldnames |-> <<"plant_id", "plant_name", "region", "timezone">>,
                   rows |-> plants]
      [] i = 2 -> [path |-> "master/products.csv",
                   fieldnames |-> <<"sku", "product_name", "category">>,
                   rows |-> PRODUCTS]
      [] i = 3 -> [path |-> "erp/inventory_snapshot.csv",
                   fieldnames |-> <<"snapshot_date", "plant_id", "sku", "on_hand_qty",
                                    "safety_stock_qty">>,
                   rows |-> inventory]
      [] i = 4 -> [path |-> "erp/production_orders.csv",
                   fieldnames |-> <<"prod_order_id", "plant_id", "sku", "planned_qty",
                                    "actual_qty", "start_ts", "end_ts", "scrap_qty">>,
                   rows |-> prod]
      [] i = 5 -> [path |-> "oracle_cloud/purchase_orders.csv",
                   fieldnames |-> <<"cloud_po_id", "supplier_id", "supplier_name",
                                    "supplier_country", "sku", "order_qty", "order_date",
                                    "expected_delivery_date", "unit_cost_usd", "status">>,
                   rows |-> cpo]
      [] i = 6 -> [path |-> "logistics/shipments.csv",
                   fieldnames |-> <<"shipment_id", "plant_id", "carrier", "sku",
                                    "shipped_qty", "ship_ts", "eta_ts", "status",
                                    "destination_dc">>,
                   rows |-> shipments]
      [] i = 7 -> [path |-> "stream/shipment_events.jsonl",
                   fieldnames |-> <<>>,
                   rows |-> events]
      [] i = 8 -> [path |-> "iot/press_telemetry.csv",
                   fieldnames |-> <<"ts", "plant_id", "press_id", "temperature_c",
                                    "vibration_mm_s">>,
                   rows |-> iot]

OutputFiles == 8

\* ap.parse_args(): a command line the parser rejects ends the process.
ParseArgs ==
    /\ pc = "parse_args"
    /\ IF argv.ok
       THEN pc' = "mkdir" /\ exc' = exc
       ELSE pc' = "exit" /\ exc' = "SystemExit"
    /\ UNCHANGED <<argv, today, fs, start, rng, plants, inventory, prod, cpo,
                   shipments, events, iot, d, p, k, n, current, files, earlier>>

\* mkdir(out)
MkdirOut ==
    /\ pc = "mkdir"
    /\ IF fs = "denied"
       THEN pc' = "raised" /\ exc' = "OSError"
       ELSE pc' = "start" /\ exc' = exc
    /\ UNCHANGED <<argv, today, fs, start, rng, plants, inventory, prod, cpo,
                   shipments, events, iot, d, p, k, n, current, files, earlier>>

\* end = utcnow() at midnight; start = fromisoformat(args.start) if args.start
\* else end - timedelta(days=args.days).  A malformed --start raises.
ComputeStart ==
    /\ pc = "start"
    /\ IF argv.start.kind = "malformed"
       THEN pc' = "raised" /\ exc' = "ValueError" /\ start' = start
       ELSE /\ pc' = "gen_plants" /\ exc' = exc
            /\ start' = IF argv.start.kind = "date"
                        THEN argv.start.date * MinutesPerDay
                        ELSE today * MinutesPerDay - argv.days * MinutesPerDay
    /\ UNCHANGED <<argv, today, fs, rng, plants, inventory, prod, cpo,
                   shipments, events, iot, d, p, k, n, current, files, earlier>>

\* One write_csv / write_jsonl call; a full disk makes the write raise.
WriteFile ==
    /\ pc = "write"
    /\ k <= OutputFiles
    /\ IF fs = "full"
       THEN pc' = "raised" /\ exc' = "OSError" /\ UNCHANGED <<files, k>>
       ELSE /\ files' = Append(files, OutputFile(k))
            /\ k' = k + 1
            /\ UNCHANGED <<pc, exc>>
    /\ UNCHANGED <<argv, today, fs, start, rng, plants, inventory, prod, cpo,
                   shipments, events, iot, d, p, n, current, earlier>>

\* print(...): the run ends.
Finish ==
    /\ pc = "write"
    /\ k > OutputFiles
    /\ pc' = "done"
    /\ UNCHANGED <<exc, argv, today, fs, start, rng, plants, inventory, prod, cpo,
                   shipments, events, iot, d, p, k, n, current, files, earlier>>

(***************************************************************************)
(* The environment: the clock, and the same command run again.             *)
(***************************************************************************)
FsAnswers == {"ok", "denied", "full"}

\* The clock's dates: late enough for today - days to be a date.
ClockDates == 10..(10 + MaxDate)

\* The UTC date changes.  main reads the clock once, after parse_args, so
\* only a change before that read can be seen.
Tick ==
    /\ pc = "parse_args"
    /\ today + 1 \in ClockDates
    /\ today' = today + 1
    /\ UNCHANGED <<pc, exc, argv, fs, start, rng, plants, inventory, prod, cpo,
                   shipments, events, iot, d, p, k, n, current, files, earlier>>

\* FreshProcess with the generator seeded from the clock.
FreshProcessClockSeeded ==
    /\ pc' = "parse_args" /\ exc' = ""
    /\ rng' = today
    /\ start' = 0
    /\ plants' = <<>> /\ inventory' = <<>> /\ prod' = <<>> /\ cpo' = <<>>
    /\ shipments' = <<>> /\ events' = <<>> /\ iot' = <<>>
    /\ d' = 0 /\ p' = 1 /\ k' = 0 /\ n' = <<>> /\ current' = 0
    /\ files' = <<>>

\* A process's state as it starts: module level code has seeded RNG.
FreshProcess ==
    /\ pc' = "parse_args" /\ exc' = ""
    /\ rng' = Seed
    /\ start' = 0
    /\ plants' = <<>> /\ inventory' = <<>> /\ prod' = <<>> /\ cpo' = <<>>
    /\ shipments' = <<>> /\ events' = <<>> /\ iot' = <<>>
    /\ d' = 0 /\ p' = 1 /\ k' = 0 /\ n' = <<>> /\ current' = 0
    /\ files' = <<>>

\* The run is over; the same command line is run again in a fresh process,
\* into another output directory of the same file system.
Rerun ==
    /\ pc \in {"done", "raised", "exit"}
    /\ Len(earlier) + 1 < MaxRuns
    /\ earlier' = Append(earlier, [pc |-> pc, exc |-> exc, files |-> files,
                                   start |-> start, today |-> today])
    /\ FreshProcess
    /\ UNCHANGED <<argv, today, fs>>

(***************************************************************************)
(* The draws of a seeded run: the j-th draw of a step is taken from the    *)
(* generator's state after j advances, and the step leaves the generator   *)
(* advanced by the number of draws it made.                                *)
(***************************************************************************)
\* RNG.random() < q/1000 as the j-th draw.
chance(x, j, q) == randint(x, j, 0, 999) < q

SeededPlantsRow ==
    /\ PlantsRow(randint(rng, 1, 1, Len(REGIONS)))
    /\ rng' = AdvanceBy(rng, 1)

SeededInventoryStep ==
    /\ InventoryStep(randint(rng, 1, -40, 40), randint(rng, 2, 0, 999))
    /\ rng' = AdvanceBy(rng, 2)

SeededProdLoop ==
    /\ ProdLoop(randint(rng, 1, MinOrdersPerDay, MaxOrdersPerDay))
    /\ rng' = AdvanceBy(rng, 1)

SeededProdStep ==
    /\ LET si == randint(rng, 1, 1, Len(PRODUCTS))
           q == ProdQtyRange(PRODUCTS[si].sku)
           c == ProdCycleRange(PRODUCTS[si].sku)
       IN ProdStep([si |-> si,
                    qty |-> randint(rng, 2, q[1], q[2]),
                    cyc |-> randint(rng, 3, c[1], c[2]),
                    minute |-> randint(rng, 4, 0, LastMinute),
                    suffix |-> randint(rng, 5, 1000, 9999),
                    act |-> randint(rng, 6, 920, 1030),
                    scrap |-> randint(rng, 7, 0, 30)])
    /\ rng' = AdvanceBy(rng, 7)

SeededPurchaseLoop ==
    /\ PurchaseLoop(randint(rng, 1, MinPOsPerDay, MaxPOsPerDay))
    /\ rng' = AdvanceBy(rng, 1)

SeededPurchaseStep ==
    /\ LET si == randint(rng, 2, 1, Len(PRODUCTS))
           q == PurchaseQtyRange(PRODUCTS[si].sku)
       IN PurchaseStep([sup |-> randint(rng, 1, 1, Len(SUPPLIERS)),
                        si |-> si,
                        qty |-> randint(rng, 3, q[1], q[2]),
                        lead |-> randint(rng, 4, 3, 21),
                        suffix |-> randint(rng, 5, 100000, 999999),
                        cost |-> randint(rng, 6, 4000, 22000),
                        st |-> randint(rng, 7, 1, Len(PO_STATUSES))])
    /\ rng' = AdvanceBy(rng, 7)

SeededShipLoop ==
    /\ ShipLoop(randint(rng, 1, MinShipmentsPerDay, MaxShipmentsPerDay))
    /\ rng' = AdvanceBy(rng, 1)

SeededShipStep ==
    /\ Len(plants) > 0
    /\ LET si == randint(rng, 3, 1, Len(PRODUCTS))
           q == ShipQtyRange(PRODUCTS[si].sku)
       IN ShipStep([pi |-> randint(rng, 1, 1, Len(plants)),
                    ca |-> randint(rng, 2, 1, Len(CARRIERS)),
                    si |-> si,
                    qty |-> randint(rng, 4, q[1], q[2]),
                    minute |-> randint(rng, 5, 0, LastMinute),
                    hours |-> randint(rng, 6, MinEtaHours, MaxEtaHours),
                    suffix |-> randint(rng, 7, 10000, 99999),
                    st |-> randint(rng, 8, 1, Len(SHIPMENT_STATUSES)),
                    dc |-> randint(rng, 9, 1, 9)])
    /\ rng' = AdvanceBy(rng, 9)

SeededEventsLoop ==
    /\ EventsLoop(randint(rng, 1, MinEvents, MaxEvents))
    /\ rng' = AdvanceBy(rng, 1)

\* The draws behind `and` are made only when the left operand holds, and the
\* snap's draw only when the event is forced.
SeededEventsStep ==
    /\ pc = "gen_shipment_events" /\ n # <<>>
    /\ LET eta_ts == fromisoformat(shipments[p].eta_ts)
           step == randint(rng, 1, MinStepHours, MaxStepHours)
           stepped == current + step * MinutesPerHour
           past == stepped > eta_ts
           j1 == IF past THEN 3 ELSE 2
           late == past /\ chance(rng, 3, 600)
           near == k # LastEventIndex /\ (eta_ts - stepped) * 60 < 3600
           j2 == IF near THEN j1 + 1 ELSE j1
           deliver == near /\ chance(rng, j2, 700)
           forced == Forced(k, stepped, eta_ts, deliver)
           j3 == IF forced THEN j2 + 1 ELSE j2
       IN /\ EventsStep([step |-> step,
                         si |-> randint(rng, 2, 1, Len(EVENT_STATUSES)),
                         late |-> late,
                         deliver |-> deliver,
                         h |-> IF forced THEN randint(rng, j3, MinSnapHours, MaxSnapHours)
                                         ELSE 0,
                         lat |-> randint(rng, j3 + 1, 2500000, 4900000),
                         lon |-> randint(rng, j3 + 2, -12400000, -6700000)])
          /\ rng' = AdvanceBy(rng, j3 + 2)

SeededIotStep ==
    /\ LET anomaly == chance(rng, 3, 20)
       IN /\ IotStep([temp |-> randint(rng, 1, -300, 300),
                      vib |-> randint(rng, 2, 100, 900),
                      anomaly |-> anomaly,
                      tplus |-> IF anomaly THEN randint(rng, 4, 1000, 2500) ELSE 0,
                      vplus |-> IF anomaly THEN randint(rng, 5, 1000, 2200) ELSE 0])
          /\ rng' = AdvanceBy(rng, IF anomaly THEN 5 ELSE 3)

(***************************************************************************)
(* Spec: whole runs of the program, seeded.                                *)
(***************************************************************************)
\* The command lines: --days and --plants any integers, --start omitted,
\* a date or malformed; ok is false for a line the parser rejects.
CommandLines ==
    [ok : BOOLEAN, days : -1..MaxRunDays, plants : -1..MaxRunPlants,
     start : {[kind |-> "omitted", date |-> 0], [kind |-> "malformed", date |-> 0]}
             \cup [kind : {"date"}, date : ClockDates]]

\* A process about to run main(), its command line among cmds and the file
\* system's answer among answers.
InitWith(cmds, answers) ==
    /\ pc = "parse_args" /\ exc = ""
    /\ argv \in cmds
    /\ today = 10
    /\ fs \in answers
    /\ rng = Seed
    /\ start = 0
    /\ plants = <<>> /\ inventory = <<>> /\ prod = <<>> /\ cpo = <<>>
    /\ shipments = <<>> /\ events = <<>> /\ iot = <<>>
    /\ d = 0 /\ p = 1 /\ k = 0 /\ n = <<>> /\ current = 0
    /\ files = <<>> /\ earlier = <<>>

Init == InitWith(CommandLines, FsAnswers)

Next ==
    \/ Tick
    \/ Rerun
    \/ ParseArgs
    \/ MkdirOut
    \/ ComputeStart
    \/ SeededPlantsRow
    \/ PlantsReturn
    \/ SeededInventoryStep
    \/ InventoryReturn
    \/ SeededProdLoop
    \/ SeededProdStep
    \/ ProdReturn
    \/ SeededPurchaseLoop
    \/ SeededPurchaseStep
    \/ PurchaseReturn
    \/ SeededShipLoop
    \/ SeededShipStep
    \/ ShipRaise
    \/ ShipReturn
    \/ SeededEventsLoop
    \/ SeededEventsStep
    \/ EventsReturn
    \/ SeededIotStep
    \/ IotReturn
    \/ WriteFile
    \/ Finish

Spec == Init /\ [][Next]_vars

(***************************************************************************)
(* The specifications below quantify over the outcomes of the draws: a     *)
(* step's draws are chosen with \E, each from its call's range narrowed to *)
(* a few of its values, and the generator's state is not followed.         *)
(***************************************************************************)
\* --start omitted or a date.
StartArgs == {[kind |-> "omitted", date |-> 0]} \cup [kind : {"date"}, date : ClockDates]

AnyPlantsRow ==
    /\ \E ri \in Ends(1, Len(REGIONS), DrawWidth) : PlantsRow(ri)
    /\ UNCHANGED rng

\* The gauss draw at its mean, the random() draw at its middle.
TypicalInventoryStep ==
    /\ InventoryStep(0, 500)
    /\ UNCHANGED rng

\* One outcome of the draws: the fewest orders, of the first product.
TypicalProdLoop ==
    /\ ProdLoop(MinOrdersPerDay)
    /\ UNCHANGED rng

TypicalProdStep ==
    /\ ProdStep([si |-> 1, qty |-> 200, cyc |-> 80, minute |-> 0, suffix |-> 1000 + k,
                 act |-> 1000, scrap |-> 0])
    /\ UNCHANGED rng

\* The orders of a (day, plant): the fewest; each of either SKU family, with
\* one of two suffixes.
AnyProdLoop ==
    /\ ProdLoop(MinOrdersPerDay)
    /\ UNCHANGED rng

AnyProdStep ==
    /\ \E si \in Ends(1, Len(PRODUCTS), DrawWidth), suffix \in 1000..(1000 + DrawWidth) :
          ProdStep([si |-> si,
                    qty |-> ProdQtyRange(PRODUCTS[si].sku)[1],
                    cyc |-> ProdCycleRange(PRODUCTS[si].sku)[2],
                    minute |-> LastMinute,
                    suffix |-> suffix,
                    act |-> 920,
                    scrap |-> 30])
    /\ UNCHANGED rng

\* One outcome of the draws: the fewest purchase orders.
TypicalPurchaseLoop ==
    /\ PurchaseLoop(MinPOsPerDay)
    /\ UNCHANGED rng

TypicalPurchaseStep ==
    /\ PurchaseStep([sup |-> 1, si |-> 1, qty |-> 500, lead |-> 3, suffix |-> 100000 + k,
                     cost |-> 4000, st |-> 1])
    /\ UNCHANGED rng

\* The shipments of a day: the fewest; each with one of two suffixes, from any
\* plant, shipped at midnight with the longest ETA.
AnyShipLoop ==
    /\ ShipLoop(MinShipmentsPerDay)
    /\ UNCHANGED rng

AnyShipStep ==
    /\ \E pi \in DOMAIN plants, suffix \in 10000..(10000 + DrawWidth) :
          ShipStep([pi |-> pi, ca |-> 1, si |-> 1, qty |-> 100, minute |-> 0,
                    hours |-> MaxEtaHours, suffix |-> suffix, st |-> 1, dc |-> 1])
    /\ UNCHANGED rng

\* The events of a shipment: the fewest or the most passes, each an hour
\* after the one before; a forced event snaps to the earliest hour.
HourlyEventsLoop ==
    /\ \E cnt \in {MinEvents, MaxEvents} : EventsLoop(cnt)
    /\ UNCHANGED rng

HourlyEventsStep ==
    /\ \E deliver \in BOOLEAN :
          EventsStep([step |-> MinStepHours, si |-> 1, late |-> FALSE, deliver |-> deliver,
                      h |-> MinSnapHours, lat |-> 2500000, lon |-> -12400000])
    /\ UNCHANGED rng

\* The events of a shipment: any number of passes; each step the shortest or
\* the longest, each chance draw either way, the snap's draw at either end of
\* its range; the drawn status is the list's first.
AnyEventsLoop ==
    /\ \E cnt \in MinEvents..MaxEvents : EventsLoop(cnt)
    /\ UNCHANGED rng

AnyEventsStep ==
    /\ \E step \in {MinStepHours, MaxStepHours},
          late \in BOOLEAN, deliver \in BOOLEAN,
          h \in {MinSnapHours, MaxSnapHours} :
          EventsStep([step |-> step, si |-> 1, late |-> late, deliver |-> deliver,
                      h |-> h, lat |-> 2500000, lon |-> -12400000])
    /\ UNCHANGED rng

(***************************************************************************)
(* SpecInventory: a run up to the return of gen_inventory.                 *)
(***************************************************************************)
InventoryCommandLines ==
    [ok : {TRUE}, days : -1..MaxDays, plants : -1..MaxPlants, start : StartArgs]

InitInventory == InitWith(InventoryCommandLines, {"ok"})

NextInventory ==
    \/ ParseArgs
    \/ MkdirOut
    \/ ComputeStart
    \/ AnyPlantsRow
    \/ PlantsReturn
    \/ TypicalInventoryStep
    \/ InventoryReturn

SpecInventory == InitInventory /\ [][NextInventory]_vars

\* The rows of inventory for day index dd, the pp-th plant and the kk-th product.
InventoryRowsOf(dd, pp, kk) ==
    {i \in DOMAIN inventory :
        /\ inventory[i].snapshot_date = DateOf(start) + dd
        /\ inventory[i].plant_id = plants[pp].plant_id
        /\ inventory[i].sku = PRODUCTS[kk].sku}

\* C8: for days >= 0 and the plant list of gen_plants, gen_inventory returns
\* exactly one row for each (day, plant, SKU) of the requested range and no
\* other row, days x plants x 5 rows in all; with days = 1 and plants = 1 these
\* are 5 rows, all of the start date and of plant PLT-001.
C8_InventoryOneRowPerTriple ==
    (pc = "gen_production_orders" /\ argv.days >= 0) =>
        /\ Len(inventory) = argv.days * Len(plants) * 5
        /\ \A dd \in Range(argv.days), pp \in DOMAIN plants, kk \in DOMAIN PRODUCTS :
              Cardinality(InventoryRowsOf(dd, pp, kk)) = 1
        /\ \A i \in DOMAIN inventory :
              \E dd \in Range(argv.days), pp \in DOMAIN plants, kk \in DOMAIN PRODUCTS :
                  i \in InventoryRowsOf(dd, pp, kk)
        /\ (argv.days = 1 /\ argv.plants = 1) =>
              /\ Len(inventory) = 5
              /\ \A i \in DOMAIN inventory :
                    /\ inventory[i].snapshot_date = DateOf(start)
                    /\ inventory[i].plant_id = "PLT-001"

\* gen_inventory has returned the rows of two days and two plants.
C8_Witness ==
    /\ pc = "gen_production_orders"
    /\ argv.days = 2 /\ Len(plants) = 2
    /\ Len(inventory) = 20
    /\ inventory[20].plant_id = "PLT-002"
    /\ inventory[20].snapshot_date = DateOf(start) + 1

(***************************************************************************)
(* Claims about whole runs (Spec).                                         *)
(***************************************************************************)
\* Both this run and the run before it ended with all files written.
BothRunsDone == pc = "done" /\ Len(earlier) >= 1 /\ earlier[1].pc = "done"

C9_OnlyDocumentedFailures ==
    (argv.ok /\ fs = "ok" /\ argv.start.kind # "malformed") =>
        /\ pc # "raised"
        /\ pc = "done" => Len(files) = OutputFiles

(***************************************************************************)
(* SpecProd: a run up to the return of gen_production_orders.              *)
(***************************************************************************)
PartCommandLines ==
    [ok : {TRUE}, days : -1..MaxRunDays, plants : -1..MaxRunPlants, start : StartArgs]

InitProd == InitWith(PartCommandLines, {"ok"})

NextProd ==
    \/ ParseArgs
    \/ MkdirOut
    \/ ComputeStart
    \/ AnyPlantsRow
    \/ PlantsReturn
    \/ TypicalInventoryStep
    \/ InventoryReturn
    \/ AnyProdLoop
    \/ AnyProdStep
    \/ ProdReturn

SpecProd == InitProd /\ [][NextProd]_vars

\* C6: within one run the rows of gen_production_orders have pairwise
\* distinct prod_order_id values, whatever the draws.
C6_ProdOrderIdsDistinct ==
    \A i, j \in DOMAIN prod : i # j => prod[i].prod_order_id # prod[j].prod_order_id

(***************************************************************************)
(* SpecShipments: a run up to the return of gen_shipment_events.           *)
(***************************************************************************)
InitShipments == InitWith(PartCommandLines, {"ok"})

NextShipments ==
    \/ ParseArgs
    \/ MkdirOut
    \/ ComputeStart
    \/ AnyPlantsRow
    \/ PlantsReturn
    \/ TypicalInventoryStep
    \/ InventoryReturn
    \/ TypicalProdLoop
    \/ TypicalProdStep
    \/ ProdReturn
    \/ TypicalPurchaseLoop
    \/ TypicalPurchaseStep
    \/ PurchaseReturn
    \/ AnyShipLoop
    \/ AnyShipStep
    \/ ShipRaise
    \/ ShipReturn
    \/ HourlyEventsLoop
    \/ HourlyEventsStep
    \/ EventsReturn

SpecShipments == InitShipments /\ [][NextShipments]_vars

\* The events that carry a shipment id, in emission order.
EventsOf(sid) == SelectSeq(events, LAMBDA e : e.shipment_id = sid)

\* C3: for every generated shipment, gen_shipment_events emits at least 1 and
\* at most 8 events that carry the shipment's id; every shipment id of
\* gen_shipments is referenced by at least one event.
C3_OneToEightEventsPerShipmentId ==
    pc = "gen_iot" =>
        \A i \in DOMAIN shipments :
            /\ Len(EventsOf(shipments[i].shipment_id)) >= 1
            /\ Len(EventsOf(shipments[i].shipment_id)) <= MaxEvents

\* C7: every event references exactly one shipment of the run, and event ids
\* are pairwise distinct.
C7_EventReferencesOneShipment ==
    /\ \A i \in DOMAIN events :
          Cardinality({j \in DOMAIN shipments :
                          shipments[j].shipment_id = events[i].shipment_id}) = 1
    /\ \A i, j \in DOMAIN events : i # j => events[i].event_id # events[j].event_id

(***************************************************************************)
(* SpecEvents: gen_shipment_events on a list of one shipment, the shipment *)
(* any row gen_shipments can append for one plant (its ship time and its   *)
(* hours to the ETA narrowed to the ends of their ranges).                 *)
(***************************************************************************)
ShipmentInputs ==
    {ShipmentRow(0, [pi |-> 1, ca |-> 1, si |-> 1, qty |-> 100, minute |-> m,
                     hours |-> h, suffix |-> 10000, st |-> 1, dc |-> 1]) :
        m \in Ends(0, LastMinute, DrawWidth),
        h \in Ends(MinEtaHours, MaxEtaHours, DrawWidth)}

InitEvents ==
    /\ pc = "gen_shipment_events" /\ exc = ""
    /\ argv = [ok |-> TRUE, days |-> 1, plants |-> 1, start |-> [kind |-> "date", date |-> 10]]
    /\ today = 10
    /\ fs = "ok"
    /\ rng = Seed
    /\ start = 10 * MinutesPerDay
    /\ plants = <<PlantRow(1, REGIONS[1])>>
    /\ inventory = <<>> /\ prod = <<>> /\ cpo = <<>>
    /\ shipments \in {<<s>> : s \in ShipmentInputs}
    /\ events = <<>> /\ iot = <<>>
    /\ d = 0 /\ p = 1 /\ k = 0 /\ n = <<>> /\ current = 0
    /\ files = <<>> /\ earlier = <<>>

NextEvents ==
    \/ AnyEventsLoop
    \/ AnyEventsStep
    \/ EventsReturn

SpecEvents == InitEvents /\ [][NextEvents]_vars

\* The time of a timestamp text.
TimeOf(ts) == fromisoformat(ts)

\* The clock before the i-th event of the sequence E of shipment s was made.
ClockBefore(s, E, i) == IF i = 1 THEN TimeOf(s.ship_ts) ELSE TimeOf(E[i - 1].event_ts)

\* C1: for every shipment passed to gen_shipment_events and every outcome of
\* the draws, the event_ts values of the shipment's events are strictly
\* increasing in emission order, a forced final event's reset time included.
C1_EventTimesStrictlyIncrease ==
    \A x \in DOMAIN shipments :
        LET E == EventsOf(shipments[x].shipment_id)
        IN \A i, j \in DOMAIN E : i < j => IsoLess(E[i].event_ts, E[j].event_ts)

\* A shipment's eighth event was forced to DELIVERED and its time reset to two
\* hours before the ETA, later than the event before it.
C1_Witness ==
    /\ pc = "gen_iot"
    /\ Len(events) = MaxEvents
    /\ events[MaxEvents].status = "DELIVERED"
    /\ TimeOf(events[MaxEvents].event_ts) = TimeOf(shipments[1].eta_ts) - 2 * MinutesPerHour
    /\ TimeOf(events[MaxEvents].event_ts) > TimeOf(events[MaxEvents - 1].event_ts) + 10 * MinutesPerHour

\* C2: the last event of every shipment's event sequence has status DELIVERED.
C2_LastEventDelivered ==
    pc = "gen_iot" =>
        \A x \in DOMAIN shipments :
            LET E == EventsOf(shipments[x].shipment_id)
            IN Len(E) >= 1 /\ E[Len(E)].status = "DELIVERED"

\* C4: within a shipment's loop, once a DELIVERED event has been emitted no
\* further event is emitted: DELIVERED occurs only as the last event.
C4_DeliveredIsLast ==
    \A x \in DOMAIN shipments :
        LET E == EventsOf(shipments[x].shipment_id)
        IN \A i \in DOMAIN E : E[i].status = "DELIVERED" => i = Len(E)

\* The first pass of a loop of at least three delivered the shipment, and
\* the function returned that one event.
C4_Witness ==
    /\ pc = "gen_iot"
    /\ Len(events) = 1
    /\ events[1].status = "DELIVERED"

\* C10, as claimed: every DELIVERED event's time is eta_ts + h hours with
\* -2 <= h <= 18, so eta_ts - 2h <= event_ts <= eta_ts + 18h.
C10_DeliveredWithinSnapWindow ==
    \A x \in DOMAIN shipments :
        LET E == EventsOf(shipments[x].shipment_id)
            eta_ts == TimeOf(shipments[x].eta_ts)
        IN \A i \in DOMAIN E :
              E[i].status = "DELIVERED" =>
                  /\ eta_ts + MinSnapHours * MinutesPerHour <= TimeOf(E[i].event_ts)
                  /\ TimeOf(E[i].event_ts) <= eta_ts + MaxSnapHours * MinutesPerHour

\* C10, amended: every DELIVERED event's time is the later of the advanced
\* clock (the time before it plus a step of 1 to 10 hours) and eta_ts + h
\* hours with -2 <= h <= 18; so event_ts >= eta_ts - 2h, and event_ts exceeds
\* eta_ts + 18h only when the advanced clock already did.
C10_DeliveredAtLaterOfClockAndSnap ==
    \A x \in DOMAIN shipments :
        LET E == EventsOf(shipments[x].shipment_id)
            eta_ts == TimeOf(shipments[x].eta_ts)
        IN \A i \in DOMAIN E :
              E[i].status = "DELIVERED" =>
                  /\ eta_ts + MinSnapHours * MinutesPerHour <= TimeOf(E[i].event_ts)
                  /\ \E step \in MinStepHours..MaxStepHours, h \in MinSnapHours..MaxSnapHours :
                        TimeOf(E[i].event_ts) =
                            Max(ClockBefore(shipments[x], E, i) + step * MinutesPerHour,
                                eta_ts + h * MinutesPerHour)

\* A DELIVERED event later than eta_ts + 18h: the clock had passed the window.
C10_Witness ==
    /\ Len(events) >= 2
    /\ events[Len(events)].status = "DELIVERED"
    /\ TimeOf(events[Len(events)].event_ts) >
          TimeOf(shipments[1].eta_ts) + MaxSnapHours * MinutesPerHour

====
